---- MODULE Spec2Model ----
(***************************************************************************)
(* Model of Twitter2Bluesky.py: one monitor_tweets task per entry of       *)
(* ACCOUNTS, run together by main() under asyncio.gather, and the text     *)
(* and link transformations the tasks apply to a tweet before posting it.  *)
(*                                                                         *)
(* A text is a sequence of one-character strings.                          *)
(***************************************************************************)
EXTENDS Integers, Sequences, FiniteSets, TLC

(***************************************************************************)
(* Characters and the Python string methods the code uses.                 *)
(***************************************************************************)

\* [a-zA-Z0-9] of SHORT_URL_PATTERN (line 28).
IsAlnum(c) ==
    c \in {"a", "b", "c", "d", "e", "f", "g", "h", "i", "j", "k", "l", "m",
           "n", "o", "p", "q", "r", "s", "t", "u", "v", "w", "x", "y", "z",
           "A", "B", "C", "D", "E", "F", "G", "H", "I", "J", "K", "L", "M",
           "N", "O", "P", "Q", "R", "S", "T", "U", "V", "W", "X", "Y", "Z",
           "0", "1", "2", "3", "4", "5", "6", "7", "8", "9"}

\* What str.strip() and str.rstrip() remove: the characters of str.isspace().
\* After the five written with an escape come U+000B, U+001C to U+001F,
\* U+0085, U+00A0 and U+1680, each written as itself.  Restricted to the
\* characters a string of the module can hold: the other Unicode spaces
\* (U+2000 to U+200A, U+2028, U+2029, U+202F, U+205F, U+3000), which the code
\* removes as well, are left out.
IsSpace(c) ==
    c \in {" ", "\n", "\t", "\r", "\f",
           "", "", "", "", "", "", " ", " "}

\* s * n of Python for a one-character s.
Rep(c, n) == [i \in 1..n |-> c]

\* str.rstrip(): drop trailing whitespace.
rstrip(s) ==
    IF \A i \in 1..Len(s) : IsSpace(s[i]) THEN <<>>
    ELSE LET last == CHOOSE i \in 1..Len(s) :
                         /\ ~IsSpace(s[i])
                         /\ \A j \in (i+1)..Len(s) : IsSpace(s[j])
         IN  SubSeq(s, 1, last)

\* str.lstrip(): drop leading whitespace.
lstrip(s) ==
    IF \A i \in 1..Len(s) : IsSpace(s[i]) THEN <<>>
    ELSE LET first == CHOOSE i \in 1..Len(s) :
                          /\ ~IsSpace(s[i])
                          /\ \A j \in 1..(i-1) : IsSpace(s[j])
         IN  SubSeq(s, first, Len(s))

\* str.strip()
strip(s) == lstrip(rstrip(s))

(***************************************************************************)
(* SHORT_URL_PATTERN = re.compile(r'https://t.co/[a-zA-Z0-9]+')            *)
(***************************************************************************)

ShortUrlHead == <<"h", "t", "t", "p", "s", ":", "/", "/", "t">>
ShortUrlTail == <<"c", "o", "/">>

\* Index of the last character of the pattern's match that starts at i, or 0
\* when the pattern does not match at i.  The '.' of the pattern is unescaped:
\* it matches any character but a newline.  The token is greedy.
MatchEnd(s, i) ==
    LET n   == Len(s)
        dot == i + Len(ShortUrlHead)
        tok == dot + Len(ShortUrlTail) + 1
    IN  IF /\ tok <= n
           /\ \A k \in 1..Len(ShortUrlHead) : s[i + k - 1] = ShortUrlHead[k]
           /\ s[dot] # "\n"
           /\ \A k \in 1..Len(ShortUrlTail) : s[dot + k] = ShortUrlTail[k]
           /\ IsAlnum(s[tok])
        THEN IF \A k \in tok..n : IsAlnum(s[k]) THEN n
             ELSE (CHOOSE k \in tok..n :
                       /\ ~IsAlnum(s[k])
                       /\ \A j \in tok..(k-1) : IsAlnum(s[j])) - 1
        ELSE 0

\* The matches re finds in s from index `from` on, as <<first, last>> pairs in
\* order: the leftmost match, then the leftmost one after its end, and so on.
RECURSIVE Matches(_, _)
Matches(s, from) ==
    LET starts == {i \in from..Len(s) : MatchEnd(s, i) > 0}
    IN  IF starts = {} THEN <<>>
        ELSE LET a == CHOOSE x \in starts : \A y \in starts : x <= y
             IN  <<<<a, MatchEnd(s, a)>>>> \o Matches(s, MatchEnd(s, a) + 1)

\* Index in s of the k-th character that no match of ms covers.
RECURSIVE SourceIndex(_, _, _)
SourceIndex(k, ms, j) ==
    IF j > Len(ms) \/ ms[j][1] > k THEN k
    ELSE SourceIndex(k + (ms[j][2] - ms[j][1] + 1), ms, j + 1)

Covered(ms) == UNION {ms[j][1]..ms[j][2] : j \in 1..Len(ms)}

\* s without the characters the matches ms cover.
Without(s, ms) ==
    [k \in 1..(Len(s) - Cardinality(Covered(ms))) |-> s[SourceIndex(k, ms, 1)]]

\* SHORT_URL_PATTERN.sub('', s): remove every match, scanning left to right.
SHORT_URL_PATTERN_sub(s) == Without(s, Matches(s, 1))

(***************************************************************************)
(* Lines 136-142: the text handed to TextBuilder and send_post.            *)
(***************************************************************************)

BLUESKY_LIMIT == 300

Ellipsis == <<".", ".", ".">>

\* Line 136 without its strip().
stripped_text_untrimmed(text) == SHORT_URL_PATTERN_sub(text)

\* Line 136: clean_text = SHORT_URL_PATTERN.sub('', latest_tweet.text).strip()
stripped_text(text) == strip(SHORT_URL_PATTERN_sub(text))

\* The cut made at the limit instead of three characters before it.
trim_at_limit(s) ==
    IF Len(s) > BLUESKY_LIMIT
    THEN rstrip(SubSeq(s, 1, BLUESKY_LIMIT)) \o Ellipsis
    ELSE s

\* Lines 140-142.
trim_to_limit(s) ==
    IF Len(s) > BLUESKY_LIMIT
    THEN rstrip(SubSeq(s, 1, BLUESKY_LIMIT - Len(Ellipsis))) \o Ellipsis
    ELSE s

\* Lines 136-142 together.
clean_text(text) == trim_to_limit(stripped_text(text))

(***************************************************************************)
(* fix_utm_source, lines 50-55.  An optional URL is <<>> for None and      *)
(* <<u>> for the string u.                                                 *)
(***************************************************************************)

None == <<>>
Some(u) == <<u>>

\* Python truthiness of an optional string: None and '' are falsy.
Truthy(url) == url # None /\ url[1] # <<>>

UtmTwitter == <<"u","t","m","_","s","o","u","r","c","e","=","t","w","i","t","t","e","r">>
UtmBluesky == <<"u","t","m","_","s","o","u","r","c","e","=","b","l","u","e","s","k","y">>

StartsAt(s, i, pat) ==
    /\ i + Len(pat) - 1 <= Len(s)
    /\ \A k \in 1..Len(pat) : s[i + k - 1] = pat[k]

\* re.sub(r'(utm_source=)twitter', r'\1bluesky', s)
RECURSIVE ReSubFrom(_, _)
ReSubFrom(s, i) ==
    IF i > Len(s) THEN <<>>
    ELSE IF StartsAt(s, i, UtmTwitter)
         THEN UtmBluesky \o ReSubFrom(s, i + Len(UtmTwitter))
         ELSE <<s[i]>> \o ReSubFrom(s, i + 1)

\* The pattern without its group: every "twitter" becomes "bluesky".
Twitter == <<"t","w","i","t","t","e","r">>
Bluesky == <<"b","l","u","e","s","k","y">>

RECURSIVE ReSubTwitterFrom(_, _)
ReSubTwitterFrom(s, i) ==
    IF i > Len(s) THEN <<>>
    ELSE IF StartsAt(s, i, Twitter)
         THEN Bluesky \o ReSubTwitterFrom(s, i + Len(Twitter))
         ELSE <<s[i]>> \o ReSubTwitterFrom(s, i + 1)

fix_any_twitter(url) ==
    IF ~Truthy(url) THEN url ELSE Some(ReSubTwitterFrom(url[1], 1))

fix_utm_source(url) ==
    IF ~Truthy(url) THEN url ELSE Some(ReSubFrom(url[1], 1))

(***************************************************************************)
(* The tweets the source can serve.  A tweet's text and links are fixed    *)
(* by its id; Tweet(i) is the object get_user_tweets returns for it, with  *)
(* urls holding urls[0].get('expanded_url'), or None without urls.         *)
(***************************************************************************)

MaxId == 2
TweetIds == 1..MaxId

\* "ab https://t.co/abc1"
LinkText == <<"a", "b", " ">> \o ShortUrlHead \o <<".">> \o ShortUrlTail
            \o <<"A", "b", "0", "d">>

\* 310 characters, the 297th a space.
LongText == Rep("a", BLUESKY_LIMIT - 4) \o <<" ">> \o Rep("b", 13)

TweetText(i) ==
    CASE i % 3 = 1 -> LinkText
      [] i % 3 = 2 -> LongText
      [] OTHER     -> <<" ", "x", " ">>

TweetUrl(i) ==
    CASE i % 3 = 1 -> Some(<<"x", "?">> \o UtmTwitter)
      [] i % 3 = 2 -> None
      [] OTHER     -> Some(<<>>)

Tweet(i) == [id |-> i, text |-> TweetText(i), urls |-> TweetUrl(i)]

(***************************************************************************)
(* State.  One monitor_tweets task per account; pc is the line the task    *)
(* is at.  Tasks are suspended at the awaits: "resolve" (line 90), "poll"  *)
(* (99), "meta" (118), "image" (120), "sleep101", "sleep107", "sleep157".  *)
(* "upload" (122) and "publish" (136-152) are the synchronous calls.       *)
(***************************************************************************)

ACCOUNTS == {1, 2}

VARIABLES
    main,               \* main(): "gather", "exited", "crashed", "interrupted"
    pc,                 \* per task: the line it is at, or how it ended
    previous_tweet_id,  \* per task, line 77
    latest_tweet,       \* per task, line 104
    full_url,           \* per task, lines 113-114
    metadata,           \* per task: result of get_metadata in this cycle
    img_buffer,         \* per task: result of fetch_image_to_memory
    embed,              \* per task, lines 115 and 123: None or Some(uri)
    auth,               \* history: outcome of lines 80-88
    cycles,             \* history: polls answered, over all tasks
    polled,             \* history: the task's last poll answer
    outcome,            \* history: how the task's current cycle ended
    slept,              \* history: sleeps finished since the last poll answer
    last_post,          \* history: arguments of the task's last send_post
    last_ok,            \* history: tweet id of the last send_post that returned
    relayed,            \* history: ids whose send_post returned
    twice,              \* history: ids whose send_post returned more than once
    streak,             \* history: send_post calls while polls keep one id
    cycle_sends,        \* history: send_post calls since the last poll answer
    seen,               \* history: ids the task's polls have returned
    t_pc, t_text, t_clean, \* the text transformation applied on its own
    u_pc, u_url, u_once, u_twice, \* fix_utm_source applied on its own
    restarts, relayed_before      \* earlier runs of the process

taskVars == <<main, pc, previous_tweet_id, latest_tweet, full_url, metadata,
              img_buffer, embed, auth, cycles, polled, outcome, slept,
              last_post, last_ok, relayed, twice, streak, cycle_sends, seen>>
textVars == <<t_pc, t_text, t_clean>>
urlVars == <<u_pc, u_url, u_once, u_twice>>
runVars == <<restarts, relayed_before>>
vars == <<taskVars, textVars, urlVars, runVars>>

MaxCycles == 3

\* The history counters stop at MaxCycles.
UpTo(n) == IF n > MaxCycles THEN MaxCycles ELSE n

AwaitPcs == {"resolve", "poll", "meta", "image", "sleep101", "sleep107", "sleep157"}
SleepPcs == {"sleep101", "sleep107", "sleep157"}
LoopPcs  == {"poll", "meta", "image", "upload", "publish"} \cup SleepPcs
EndPcs   == {"returned", "raised", "cancelled"}

\* A poll answer: kind is "none" before the first, then "raise", "empty" or
\* "tweet" with the tweet's id.
NotPolled == [kind |-> "none", id |-> 0]
Answer(kind, i) == [kind |-> kind, id |-> i]

NoStreak == [id |-> None, sends |-> 0, ok |-> FALSE, after_ok |-> 0]

Init ==
    /\ main = "gather"
    /\ pc = [r \in ACCOUNTS |-> "start"]
    /\ previous_tweet_id = [r \in ACCOUNTS |-> None]
    /\ latest_tweet = [r \in ACCOUNTS |-> None]
    /\ full_url = [r \in ACCOUNTS |-> None]
    /\ metadata = [r \in ACCOUNTS |-> "unset"]
    /\ img_buffer = [r \in ACCOUNTS |-> "unset"]
    /\ embed = [r \in ACCOUNTS |-> None]
    /\ auth = [r \in ACCOUNTS |-> "pending"]
    /\ cycles = 0
    /\ polled = [r \in ACCOUNTS |-> NotPolled]
    /\ outcome = [r \in ACCOUNTS |-> "none"]
    /\ slept = [r \in ACCOUNTS |-> 0]
    /\ last_post = [r \in ACCOUNTS |-> None]
    /\ last_ok = [r \in ACCOUNTS |-> None]
    /\ relayed = [r \in ACCOUNTS |-> {}]
    /\ twice = [r \in ACCOUNTS |-> {}]
    /\ streak = [r \in ACCOUNTS |-> NoStreak]
    /\ cycle_sends = [r \in ACCOUNTS |-> 0]
    /\ seen = [r \in ACCOUNTS |-> {}]
    /\ t_pc = "idle"
    /\ t_text = <<>>
    /\ t_clean = <<>>
    /\ u_pc = "idle"
    /\ u_url = None
    /\ u_once = None
    /\ u_twice = None
    /\ restarts = 0
    /\ relayed_before = [r \in ACCOUNTS |-> {}]

(***************************************************************************)
(* The decisions of monitor_tweets.                                        *)
(***************************************************************************)

\* The login error escapes the task (no try around lines 81-85).
AfterLoginErrorEscapes == "raised"

\* Lines 86-88: a failed login is logged and the task returns.
AfterLoginError == "returned"

\* Lines 90-93: get_user_by_screen_name is outside every try.
AfterResolve(res) ==
    CASE res = "user"  -> "poll"
      [] res = "none"  -> "returned"
      [] res = "raise" -> "raised"

\* The loop ends at the first exception of its body.
AfterLoopErrorStops == "returned"

\* The loop body's exception escapes the task (no try around lines 99-152).
AfterLoopErrorEscapes == "raised"

\* Lines 154-157: an exception in the loop body is logged, then line 157.
AfterLoopError == "sleep157"

\* No poll answer is taken for a duplicate.
IsDuplicateNever(prev, id) == FALSE

\* A failed upload falls back to a post without the card.
AfterUploadErrorPostsText == "publish"

\* Lines 122 and 154-157: upload_blob is inside the loop's try and has no
\* handler of its own.
AfterUploadError == AfterLoopError

\* Line 106
IsDuplicate(prev, id) == prev = Some(id)

\* Lines 117 and 135: with a link, fetch its metadata; without, go on to post.
AfterNewTweet(url) == IF Truthy(url) THEN "meta" ELSE "publish"

\* A failed get_metadata ends the cycle instead of posting the text alone.
AfterMetadataAborts(md) ==
    CASE md = "thumbnail" -> "image"
      [] md = "none"      -> "sleep157"
      [] OTHER            -> "publish"

\* Line 119
AfterMetadata(md) == IF md = "thumbnail" THEN "image" ELSE "publish"

\* The upload is tried whatever the image fetch returned.
AfterImageUnchecked(img) == "upload"

\* Line 121
AfterImage(img) == IF img = "bytes" THEN "upload" ELSE "publish"

\* Were previous_tweet_id a module-level name, every task would see the
\* assignment.
AssignGlobal(locals, r, v) == [q \in DOMAIN locals |-> v]

\* Lines 77 and 150: previous_tweet_id is a local of the coroutine, so each
\* task assigns its own.
AssignLocal(locals, r, v) == [locals EXCEPT ![r] = v]

\* The marker is never set.
MarkerNeverSet(prev, id, ok) == prev

\* The marker is set before send_post is known to have returned.
MarkerSetOnAttempt(prev, id, ok) == Some(id)

\* Lines 148-152: previous_tweet_id after send_post returned (ok) or raised.
MarkerAfterPost(prev, id, ok) == IF ok THEN Some(id) ELSE prev

\* send_post is called once more after it returned.
AfterPostSendsAgain(ok) == IF ok THEN "publish" ELSE "sleep157"

\* A failed send_post is tried again at once.
AfterPostRetryNow(ok) == IF ok THEN "sleep157" ELSE "publish"

\* Lines 147-157: after send_post returned (ok) or raised, line 157.
AfterPost(ok) == "sleep157"

\* Lines 102 and 108 without their continue: the body goes on to line 157.
AfterSleepNoContinue(site) == IF site = "sleep157" THEN "poll" ELSE "sleep157"

\* Lines 101-102, 107-108 and 157: after each sleep the loop starts over.
AfterSleep(site) == "poll"

(***************************************************************************)
(* monitor_tweets, one action per stretch of code between two awaits or    *)
(* library calls.  A task runs while the event loop does: main() awaits    *)
(* gather, or has ended with an exception and asyncio.run has not yet       *)
(* cancelled the tasks that are left.                                       *)
(***************************************************************************)

\* Lines 163 and 166: the tasks are run by the loop of asyncio.run.
LoopRuns == main \in {"gather", "crashed"}

\* Lines 70-90: the clients are built, the cookies loaded, Bluesky logged in.
Login(r) ==
    /\ LoopRuns
    /\ pc[r] = "start"
    /\ \E cookies \in {"ok", "raise"}, bluesky \in {"ok", "raise"} :
          IF cookies = "ok" /\ bluesky = "ok"
          THEN /\ auth' = [auth EXCEPT ![r] = "ok"]
               /\ pc' = [pc EXCEPT ![r] = "resolve"]
          ELSE /\ auth' = [auth EXCEPT ![r] =
                              IF cookies = "raise" THEN "twitter_failed"
                              ELSE "bluesky_failed"]
               /\ pc' = [pc EXCEPT ![r] = AfterLoginError]
    /\ UNCHANGED <<main, previous_tweet_id, latest_tweet, full_url, metadata,
                   img_buffer, embed, cycles, polled, outcome, slept, last_post,
                   last_ok, relayed, twice, streak,
                   cycle_sends, seen, textVars, urlVars, runVars>>

\* Lines 90-94: get_user_by_screen_name answers.
Resolve(r) ==
    /\ LoopRuns
    /\ pc[r] = "resolve"
    /\ \E res \in {"user", "none", "raise"} :
          pc' = [pc EXCEPT ![r] = AfterResolve(res)]
    /\ UNCHANGED <<main, previous_tweet_id, latest_tweet, full_url, metadata,
                   img_buffer, embed, auth, cycles, polled, outcome, slept, last_post,
                   last_ok, relayed, twice, streak,
                   cycle_sends, seen, textVars, urlVars, runVars>>

\* Lines 99-117: get_user_tweets answers: it raises, or returns no tweet, or
\* returns the latest tweet.
PollRaise(r) ==
    /\ polled' = [polled EXCEPT ![r] = Answer("raise", 0)]
    /\ pc' = [pc EXCEPT ![r] = AfterLoopError]
    /\ outcome' = [outcome EXCEPT ![r] = "loop_error"]
    /\ UNCHANGED <<latest_tweet, full_url, metadata, img_buffer, embed, streak,
                   seen>>

PollEmpty(r) ==
    /\ polled' = [polled EXCEPT ![r] = Answer("empty", 0)]
    /\ pc' = [pc EXCEPT ![r] = "sleep101"]
    /\ outcome' = [outcome EXCEPT ![r] = "empty"]
    /\ UNCHANGED <<latest_tweet, full_url, metadata, img_buffer, embed, streak,
                   seen>>

PollTweet(r, i) ==
    /\ polled' = [polled EXCEPT ![r] = Answer("tweet", i)]
    /\ latest_tweet' = [latest_tweet EXCEPT ![r] = Some(Tweet(i))]
    /\ seen' = [seen EXCEPT ![r] = @ \cup {i}]
    /\ streak' = [streak EXCEPT ![r] =
                     IF @.id = Some(i) THEN @ ELSE [NoStreak EXCEPT !.id = Some(i)]]
    /\ IF IsDuplicate(previous_tweet_id[r], i)
       THEN /\ pc' = [pc EXCEPT ![r] = "sleep107"]
            /\ outcome' = [outcome EXCEPT ![r] = "dup"]
            /\ UNCHANGED <<full_url, metadata, img_buffer, embed>>
       ELSE LET url == fix_utm_source(Tweet(i).urls)
            IN  /\ full_url' = [full_url EXCEPT ![r] = url]
                /\ embed' = [embed EXCEPT ![r] = None]
                /\ metadata' = [metadata EXCEPT ![r] = "unset"]
                /\ img_buffer' = [img_buffer EXCEPT ![r] = "unset"]
                /\ outcome' = [outcome EXCEPT ![r] = "running"]
                /\ pc' = [pc EXCEPT ![r] = AfterNewTweet(url)]

PollAnswer(r) ==
    /\ LoopRuns
    /\ pc[r] = "poll"
    /\ slept' = [slept EXCEPT ![r] = 0]
    /\ cycle_sends' = [cycle_sends EXCEPT ![r] = 0]
    /\ \/ PollRaise(r)
       \/ PollEmpty(r)
       \/ \E i \in TweetIds : PollTweet(r, i)
    /\ UNCHANGED <<main, previous_tweet_id, auth, last_post, last_ok, relayed,
                   twice, textVars, urlVars, runVars>>

\* Line 99, counted: the model stops polling after MaxCycles answers.
Poll(r) ==
    /\ cycles < MaxCycles
    /\ cycles' = cycles + 1
    /\ PollAnswer(r)

\* Lines 118-119: get_metadata answers: None (a status other than 200, or an
\* exception, which it catches), or a dict without or with a thumbnail.
Meta(r) ==
    /\ LoopRuns
    /\ pc[r] = "meta"
    /\ \E md \in {"none", "no_thumbnail", "thumbnail"} :
          /\ metadata' = [metadata EXCEPT ![r] = md]
          /\ pc' = [pc EXCEPT ![r] = AfterMetadata(md)]
    /\ UNCHANGED <<main, previous_tweet_id, latest_tweet, full_url, img_buffer,
                   embed, auth, cycles, polled, outcome, slept, last_post, last_ok,
                   relayed, twice, streak,
                   cycle_sends, seen, textVars, urlVars, runVars>>

\* Lines 120-121: fetch_image_to_memory answers: None or the bytes.
Image(r) ==
    /\ LoopRuns
    /\ pc[r] = "image"
    /\ \E img \in {"none", "bytes"} :
          /\ img_buffer' = [img_buffer EXCEPT ![r] = img]
          /\ pc' = [pc EXCEPT ![r] = AfterImage(img)]
    /\ UNCHANGED <<main, previous_tweet_id, latest_tweet, full_url, metadata,
                   embed, auth, cycles, polled, outcome, slept, last_post, last_ok,
                   relayed, twice, streak,
                   cycle_sends, seen, textVars, urlVars, runVars>>

\* Lines 122-133: upload_blob returns the blob and the embed is built, or it
\* raises and the exception reaches line 154.
Upload(r) ==
    /\ LoopRuns
    /\ pc[r] = "upload"
    /\ \E res \in {"blob", "raise"} :
          IF res = "blob"
          THEN /\ embed' = [embed EXCEPT ![r] = Some(full_url[r][1])]
               /\ pc' = [pc EXCEPT ![r] = "publish"]
               /\ UNCHANGED outcome
          ELSE /\ pc' = [pc EXCEPT ![r] = AfterUploadError]
               /\ outcome' = [outcome EXCEPT ![r] = "loop_error"]
               /\ UNCHANGED embed
    /\ UNCHANGED <<main, previous_tweet_id, latest_tweet, full_url, metadata,
                   img_buffer, auth, cycles, polled, slept, last_post, last_ok,
                   relayed, twice, streak,
                   cycle_sends, seen, textVars, urlVars, runVars>>

\* Lines 136-152: the text is cleaned and send_post is called with it and the
\* embed; it returns, or raises and the exception is caught at line 151.
Publish(r) ==
    /\ LoopRuns
    /\ pc[r] = "publish"
    /\ LET tweet == latest_tweet[r][1]
       IN  \E ok \in BOOLEAN :
             /\ last_post' = [last_post EXCEPT ![r] =
                    Some([id |-> tweet.id, text |-> clean_text(tweet.text),
                          embed |-> embed[r], ok |-> ok])]
             /\ previous_tweet_id' = AssignLocal(previous_tweet_id, r,
                    MarkerAfterPost(previous_tweet_id[r], tweet.id, ok))
             /\ last_ok' = [last_ok EXCEPT ![r] = IF ok THEN Some(tweet.id) ELSE @]
             /\ relayed' = [relayed EXCEPT ![r] = IF ok THEN @ \cup {tweet.id} ELSE @]
             /\ twice' = [twice EXCEPT ![r] =
                    IF ok /\ tweet.id \in relayed[r] THEN @ \cup {tweet.id} ELSE @]
             /\ streak' = [streak EXCEPT ![r] =
                    [id |-> @.id, sends |-> UpTo(@.sends + 1), ok |-> @.ok \/ ok,
                     after_ok |-> UpTo(@.after_ok + (IF @.ok THEN 1 ELSE 0))]]
             /\ cycle_sends' = [cycle_sends EXCEPT ![r] = @ + 1]
             /\ outcome' = [outcome EXCEPT ![r] = IF ok THEN "posted" ELSE "post_error"]
             /\ pc' = [pc EXCEPT ![r] = AfterPost(ok)]
    /\ UNCHANGED <<main, latest_tweet, full_url, metadata, img_buffer, embed,
                   auth, cycles, polled, slept, seen, textVars, urlVars,
                   runVars>>

\* Lines 101, 107 and 157: asyncio.sleep(60) ends.
Sleep(r) ==
    /\ LoopRuns
    /\ pc[r] \in SleepPcs
    /\ slept' = [slept EXCEPT ![r] = @ + 1]
    /\ pc' = [pc EXCEPT ![r] = AfterSleep(pc[r])]
    /\ UNCHANGED <<main, previous_tweet_id, latest_tweet, full_url, metadata,
                   img_buffer, embed, auth, cycles, polled, outcome, last_post,
                   last_ok, relayed, twice, streak,
                   cycle_sends, seen, textVars, urlVars, runVars>>

(***************************************************************************)
(* main() and asyncio.run, lines 160-169.                                  *)
(***************************************************************************)

\* Tasks that have not ended are cancelled where they wait.
CancelAll == [r \in ACCOUNTS |-> IF pc[r] \in EndPcs THEN pc[r] ELSE "cancelled"]

\* Line 163: every task returned, so gather and main() return.
MainReturn ==
    /\ main = "gather"
    /\ \A r \in ACCOUNTS : pc[r] = "returned"
    /\ main' = "exited"
    /\ UNCHANGED <<pc, previous_tweet_id, latest_tweet, full_url, metadata,
                   img_buffer, embed, auth, cycles, polled, outcome, slept, last_post,
                   last_ok, relayed, twice, streak,
                   cycle_sends, seen, textVars, urlVars, runVars>>

\* Line 163: gather hands the first exception of a task to main(), and
\* main() leaves the async with and ends with it.  The other tasks are not
\* cancelled yet: they run on in the loop until asyncio.run cancels them.
\* The loop runs main() between task steps, so the others are at an await.
MainRaise ==
    /\ main = "gather"
    /\ \E r \in ACCOUNTS : pc[r] = "raised"
    /\ \A r \in ACCOUNTS : pc[r] \in AwaitPcs \cup EndPcs \cup {"start"}
    /\ main' = "crashed"
    /\ UNCHANGED <<pc, previous_tweet_id, latest_tweet, full_url, metadata,
                   img_buffer, embed, auth, cycles, polled, outcome, slept, last_post,
                   last_ok, relayed, twice, streak,
                   cycle_sends, seen, textVars, urlVars, runVars>>

\* Line 166: after main() ended with the exception, asyncio.run cancels the
\* tasks that are left, each at the await it is at.
CancelTasks ==
    /\ main = "crashed"
    /\ \E r \in ACCOUNTS : pc[r] \notin EndPcs
    /\ \A r \in ACCOUNTS : pc[r] \in AwaitPcs \cup EndPcs \cup {"start"}
    /\ pc' = CancelAll
    /\ UNCHANGED <<main, previous_tweet_id, latest_tweet, full_url, metadata,
                   img_buffer, embed, auth, cycles, polled, outcome, slept, last_post,
                   last_ok, relayed, twice, streak,
                   cycle_sends, seen, textVars, urlVars, runVars>>

\* Lines 166-169: the operator interrupts the process.
Interrupt ==
    /\ main = "gather"
    /\ main' = "interrupted"
    /\ pc' = CancelAll
    /\ UNCHANGED <<previous_tweet_id, latest_tweet, full_url, metadata,
                   img_buffer, embed, auth, cycles, polled, outcome, slept, last_post,
                   last_ok, relayed, twice, streak,
                   cycle_sends, seen, textVars, urlVars, runVars>>

Next ==
    \/ \E r \in ACCOUNTS : Login(r)
    \/ \E r \in ACCOUNTS : Resolve(r)
    \/ \E r \in ACCOUNTS : Poll(r)
    \/ \E r \in ACCOUNTS : Meta(r)
    \/ \E r \in ACCOUNTS : Image(r)
    \/ \E r \in ACCOUNTS : Upload(r)
    \/ \E r \in ACCOUNTS : Publish(r)
    \/ \E r \in ACCOUNTS : Sleep(r)
    \/ MainReturn
    \/ MainRaise
    \/ CancelTasks
    \/ Interrupt

Spec == Init /\ [][Next]_vars

(***************************************************************************)
(* Properties of the tasks, checked under Spec.                            *)
(***************************************************************************)

FailedAuth == {"twitter_failed", "bluesky_failed"}
Sent(r) == last_post[r][1]

\* C1 as stated: while the polls of a task keep returning one tweet id,
\* send_post is called at most once in all, whether the calls return or raise.
C1_AtMostOneCall ==
    \A r \in ACCOUNTS : streak[r].sends <= 1

\* C1 amended: while the polls of a task keep returning one tweet id, no
\* send_post is called after a send_post that returned, so at most one call
\* returns; and after a send_post that raised, the next poll returning the
\* same id does not skip it as a duplicate: the cycle starts on the tweet
\* again and, once ended, has called send_post again unless upload_blob
\* raised first.
C1_NoCallAfterSuccess ==
    /\ [](\A r \in ACCOUNTS :
             /\ streak[r].after_ok = 0
             /\ streak[r].ok => previous_tweet_id[r] = streak[r].id)
    /\ [][\A r \in ACCOUNTS :
             (pc[r] = "poll" /\ outcome[r] = "post_error"
                 /\ pc'[r] \notin {"poll", "cancelled"}
                 /\ polled'[r] = polled[r])
             => /\ outcome'[r] = "running"
                /\ pc'[r] = AfterNewTweet(full_url'[r])
                /\ latest_tweet'[r] = Some(Tweet(polled[r].id))
                /\ streak'[r] = streak[r]]_vars
    /\ [](\A r \in ACCOUNTS :
             (/\ streak[r].sends >= 1
              /\ ~streak[r].ok
              /\ polled[r].kind = "tweet"
              /\ streak[r].id = Some(polled[r].id)
              /\ pc[r] \in SleepPcs \cup {"poll"})
             => \/ cycle_sends[r] = 1 /\ outcome[r] = "post_error"
                \/ cycle_sends[r] = 0 /\ outcome[r] = "loop_error"
                     /\ metadata[r] = "thumbnail" /\ img_buffer[r] = "bytes")

\* A task called send_post twice for one id (the first raised, the second
\* returned) and then met the same id again and did nothing.
C1_Witness ==
    \E r \in ACCOUNTS :
        /\ streak[r].sends = 2
        /\ streak[r].ok
        /\ outcome[r] = "dup"

\* C2: no task has send_post return more than once for the same tweet id.
C2_NoPostRelayedTwice ==
    \A r \in ACCOUNTS : twice[r] = {}

\* C3: a task whose login failed has returned (it did not raise), its
\* failing step changed neither main() nor another task, and a task is
\* cancelled only when the operator interrupted the process or the
\* exception of a task escaped to main().
C3_AuthFailureIsolated ==
    /\ [](\A a \in ACCOUNTS : auth[a] \in FailedAuth => pc[a] = "returned")
    /\ [][\A a \in ACCOUNTS :
            (pc[a] = "start" /\ auth'[a] \in FailedAuth)
            => /\ main' = main
               /\ \A b \in ACCOUNTS \ {a} :
                     /\ pc'[b] = pc[b]
                     /\ previous_tweet_id'[b] = previous_tweet_id[b]]_vars
    /\ [](\A b \in ACCOUNTS :
            pc[b] = "cancelled"
            => \/ main = "interrupted"
               \/ \E c \in ACCOUNTS : pc[c] = "raised" /\ auth[c] = "ok")

\* The login of one task failed and another task has posted since.
C3_Witness ==
    \E a, b \in ACCOUNTS :
        /\ auth[a] = "bluesky_failed"
        /\ pc[a] = "returned"
        /\ main = "gather"
        /\ outcome[b] = "posted"
        /\ pc[b] = "poll"

\* C4: previous_tweet_id is None until a send_post returned and is then the
\* id of the last tweet whose send_post returned; the only step that changes
\* it is a send_post that returns.
C4_MarkerOnlyAfterSuccess ==
    /\ [](\A r \in ACCOUNTS : previous_tweet_id[r] = last_ok[r])
    /\ [][\A r \in ACCOUNTS :
            previous_tweet_id'[r] # previous_tweet_id[r]
            => /\ pc[r] = "publish"
               /\ Sent(r)'.ok
               /\ previous_tweet_id'[r] = Some(Sent(r)'.id)]_vars

\* A send_post raised for a tweet other than the one relayed last.
C4_Witness ==
    \E r \in ACCOUNTS :
        /\ last_post[r] # None
        /\ ~Sent(r).ok
        /\ previous_tweet_id[r] # None
        /\ previous_tweet_id[r] # Some(Sent(r).id)

\* C5: the send_post of a cycle carries an embed exactly when get_metadata
\* returned a dict, the dict had a thumbnail and fetch_image_to_memory
\* returned the bytes; when one of them is missing the task goes on to
\* send_post, which gets the cleaned text and no embed.
C5_EmbedIff ==
    /\ [](\A r \in ACCOUNTS :
            outcome[r] \in {"posted", "post_error"}
            => (Sent(r).embed # None
                <=> metadata[r] = "thumbnail" /\ img_buffer[r] = "bytes"))
    /\ [][\A r \in ACCOUNTS :
            /\ (pc[r] = "meta" /\ metadata'[r] \in {"none", "no_thumbnail"})
               => pc'[r] = "publish" /\ embed'[r] = None
            /\ (pc[r] = "image" /\ img_buffer'[r] = "none")
               => pc'[r] = "publish" /\ embed'[r] = None
            /\ (pc[r] = "poll" /\ outcome'[r] = "running" /\ ~Truthy(full_url'[r]))
               => pc'[r] = "publish" /\ embed'[r] = None
            /\ (pc[r] = "publish" /\ pc'[r] \in SleepPcs)
               => /\ Sent(r)'.embed = embed[r]
                  /\ Sent(r)'.text = clean_text(latest_tweet[r][1].text)]_vars

\* A send_post went out with an embed, and another without one after the
\* image fetch failed.
C5_Witness ==
    \E a, b \in ACCOUNTS :
        /\ outcome[a] = "posted" /\ Sent(a).embed # None
        /\ outcome[b] = "posted" /\ Sent(b).embed = None
        /\ img_buffer[b] = "none"

\* C6: a task in its loop stays in its loop unless the process is stopped;
\* a step of the cycle that raises (get_user_tweets, upload_blob, send_post)
\* leaves previous_tweet_id alone and takes the task to the sleep of line
\* 157, and every sleep is followed by the next poll.
C6_LoopSurvivesErrors ==
    /\ [][\A r \in ACCOUNTS :
            pc[r] \in LoopPcs
            => \/ pc'[r] \in LoopPcs
               \/ pc'[r] = "cancelled" /\ main' # "gather"]_vars
    /\ [][\A r \in ACCOUNTS :
            (/\ pc[r] \in {"poll", "upload", "publish"}
             /\ pc'[r] \notin {pc[r], "cancelled"}
             /\ outcome'[r] \in {"loop_error", "post_error"})
            => /\ pc'[r] = "sleep157"
               /\ previous_tweet_id'[r] = previous_tweet_id[r]]_vars
    /\ [][\A r \in ACCOUNTS :
            (pc[r] \in SleepPcs /\ pc'[r] \notin {pc[r], "cancelled"})
            => pc'[r] = "poll"]_vars

\* upload_blob raised, the task slept and is polling again.
C6_Witness ==
    \E r \in ACCOUNTS :
        /\ pc[r] = "poll"
        /\ outcome[r] = "loop_error"
        /\ img_buffer[r] = "bytes"
        /\ embed[r] = None
        /\ slept[r] = 1

\* C7: a send_post that raises leaves previous_tweet_id alone and ends the
\* cycle at the sleep of line 157; the poll after it starts on the same
\* tweet again exactly when it returns that tweet; and a task only ever
\* works on, and posts, the tweet its last poll returned.
C7_FailedPostRetriedIfLatest ==
    /\ [][\A r \in ACCOUNTS :
            (pc[r] = "publish" /\ outcome'[r] = "post_error")
            => /\ previous_tweet_id'[r] = previous_tweet_id[r]
               /\ pc'[r] = "sleep157"
               /\ streak'[r].sends = streak[r].sends + 1]_vars
    /\ [][\A r \in ACCOUNTS :
            (pc[r] = "poll" /\ outcome[r] = "post_error"
                /\ pc'[r] \notin {"poll", "cancelled"})
            => ((outcome'[r] = "running" /\ latest_tweet'[r] = latest_tweet[r])
                <=> polled'[r] = Answer("tweet", Sent(r).id))]_vars
    /\ [](\A r \in ACCOUNTS :
            pc[r] \in {"meta", "image", "upload", "publish"}
            => polled[r] = Answer("tweet", latest_tweet[r][1].id))
    /\ [][\A r \in ACCOUNTS :
            last_post'[r] # last_post[r]
            => polled[r] = Answer("tweet", Sent(r)'.id)]_vars

\* send_post raised for a tweet, the next poll returned it again and the
\* task is about to post it again.
C7_Witness ==
    \E r \in ACCOUNTS :
        /\ pc[r] = "publish"
        /\ outcome[r] = "running"
        /\ last_post[r] # None
        /\ ~Sent(r).ok
        /\ Sent(r).id = latest_tweet[r][1].id

\* C8: a task that waits for a poll answer has slept exactly once since its
\* last poll answer (not at all before its first), and sleeps nowhere else
\* in the cycle.
C8_OneSleepBetweenPolls ==
    \A r \in ACCOUNTS :
        /\ pc[r] = "poll" => slept[r] = (IF polled[r] = NotPolled THEN 0 ELSE 1)
        /\ pc[r] \in LoopPcs \ {"poll"} => slept[r] = 0

\* Two tasks wait for their next poll, one after a duplicate, one after a
\* send_post that raised.
C8_Witness ==
    \E a, b \in ACCOUNTS :
        /\ pc[a] = "poll" /\ outcome[a] = "dup" /\ slept[a] = 1
        /\ pc[b] = "poll" /\ outcome[b] = "post_error" /\ slept[b] = 1

\* C11: when get_metadata or fetch_image_to_memory returns None the task
\* goes on to send_post in the same cycle; that send_post gets the cleaned
\* text and no embed, and when it returns the tweet becomes
\* previous_tweet_id and the task sleeps once and polls again.
C11_FetchFailureStillPosts ==
    /\ [][\A r \in ACCOUNTS :
            \/ pc[r] = "meta" /\ metadata'[r] = "none"
            \/ pc[r] = "image" /\ img_buffer'[r] = "none"
            => /\ pc'[r] = "publish"
               /\ outcome'[r] = "running"
               /\ latest_tweet'[r] = latest_tweet[r]]_vars
    /\ [](\A r \in ACCOUNTS :
            (pc[r] = "publish" /\ (metadata[r] = "none" \/ img_buffer[r] = "none"))
            => embed[r] = None /\ outcome[r] = "running")
    /\ [][\A r \in ACCOUNTS :
            (/\ pc[r] = "publish"
             /\ metadata[r] = "none" \/ img_buffer[r] = "none"
             /\ pc'[r] \notin {"publish", "cancelled"})
            => /\ Sent(r)' = [id |-> latest_tweet[r][1].id,
                              text |-> clean_text(latest_tweet[r][1].text),
                              embed |-> None,
                              ok |-> outcome'[r] = "posted"]
               /\ outcome'[r] = "posted"
                  => previous_tweet_id'[r] = Some(latest_tweet[r][1].id)
               /\ pc'[r] = "sleep157"]_vars
    /\ [](\A r \in ACCOUNTS :
            (outcome[r] = "posted" /\ pc[r] \notin EndPcs)
            => /\ pc[r] \in {"sleep157", "poll"}
               /\ previous_tweet_id[r] = Some(Sent(r).id))

\* After a failed metadata fetch the text went out without an embed, the
\* tweet is marked as relayed and the task waits for its next poll answer.
C11_Witness ==
    \E r \in ACCOUNTS :
        /\ metadata[r] = "none"
        /\ outcome[r] = "posted"
        /\ Sent(r).embed = None
        /\ Sent(r).text = <<"a", "b">>
        /\ previous_tweet_id[r] = Some(Sent(r).id)
        /\ pc[r] = "poll"
        /\ slept[r] = 1

\* C12: unless the operator interrupts it the process never ends: main() is
\* awaiting gather, or the operator has interrupted it.
C12_RunsUntilInterrupted ==
    main \in {"gather", "interrupted"}

\* C14: a step of one task (login, resolve, poll, processing, post or sleep;
\* being cancelled is a step of asyncio.run) leaves every other task's
\* previous_tweet_id, its place in its coroutine and its other locals as
\* they were.
C14_TasksShareNothing ==
    [][\A a \in ACCOUNTS : \A b \in ACCOUNTS \ {a} :
          (main' = main /\ pc'[a] # pc[a] /\ pc'[a] # "cancelled") =>
              /\ previous_tweet_id'[b] = previous_tweet_id[b]
              /\ pc'[b] = pc[b]
              /\ latest_tweet'[b] = latest_tweet[b]
              /\ full_url'[b] = full_url[b]
              /\ metadata'[b] = metadata[b]
              /\ img_buffer'[b] = img_buffer[b]
              /\ embed'[b] = embed[b]
              /\ auth'[b] = auth[b]
              /\ last_post'[b] = last_post[b]]_vars

\* Both tasks have posted, each holds its own marker, and they are at
\* different places.
C14_Witness ==
    /\ main = "gather"
    /\ previous_tweet_id[1] = Some(1)
    /\ previous_tweet_id[2] = Some(2)
    /\ pc[1] = "sleep157"
    /\ pc[2] = "publish"

\* C17: between two poll answers send_post is called at most once, and only
\* with the tweet the last poll returned; an id no poll of the task returned
\* is never posted.
C17_OnePostPerPollOfPolledTweet ==
    /\ [](\A r \in ACCOUNTS :
             /\ cycle_sends[r] <= 1
             /\ relayed[r] \subseteq seen[r]
             /\ last_post[r] # None => Sent(r).id \in seen[r]
             /\ cycle_sends[r] = 1 =>
                   /\ polled[r] = Answer("tweet", Sent(r).id)
                   /\ outcome[r] \in {"posted", "post_error"}
             /\ pc[r] = "publish" =>
                   /\ polled[r].kind = "tweet"
                   /\ latest_tweet[r] = Some(Tweet(polled[r].id))
                   /\ cycle_sends[r] = 0)
    /\ [][\A r \in ACCOUNTS :
             cycle_sends'[r] > cycle_sends[r] =>
                 /\ pc[r] = "publish"
                 /\ Sent(r)'.id = polled[r].id]_vars

\* One task polled tweet 1 and then tweet 2 and posted only tweet 2, the
\* other's polls never returned tweet 1 and it posted tweet 2.
C17_Witness ==
    \E a \in ACCOUNTS : \E b \in ACCOUNTS \ {a} :
        /\ seen[a] = {1, 2}
        /\ relayed[a] = {2}
        /\ cycle_sends[a] = 1
        /\ seen[b] = {2}
        /\ relayed[b] = {2}

\* The cycle of task r was ended by upload_blob raising.
UploadFailed(r) == outcome[r] = "loop_error" /\ polled[r].kind = "tweet"

\* C19: upload_blob is called only after both fetches succeeded; when it
\* raises, the cycle ends at the sleep of line 157 without any send_post,
\* previous_tweet_id stays as it was, and a next poll returning the same
\* tweet starts on it from the beginning.
C19_UploadFailureSkipsPost ==
    /\ [](\A r \in ACCOUNTS :
             /\ pc[r] = "upload" =>
                   /\ metadata[r] = "thumbnail"
                   /\ img_buffer[r] = "bytes"
                   /\ embed[r] = None
             /\ UploadFailed(r) =>
                   /\ pc[r] \in {"sleep157", "poll"} \cup EndPcs
                   /\ cycle_sends[r] = 0
                   /\ embed[r] = None
                   /\ ~IsDuplicate(previous_tweet_id[r], polled[r].id))
    /\ [][\A r \in ACCOUNTS :
             (pc[r] = "upload" /\ main' = main /\ pc'[r] # "upload"
                 /\ embed'[r] = None)
             => /\ pc'[r] = "sleep157"
                /\ UploadFailed(r)'
                /\ previous_tweet_id'[r] = previous_tweet_id[r]
                /\ last_post'[r] = last_post[r]
                /\ relayed'[r] = relayed[r]]_vars
    /\ [][\A r \in ACCOUNTS :
             (UploadFailed(r) /\ pc[r] = "poll" /\ main' = main
                 /\ pc'[r] \notin {"poll", "cancelled"}
                 /\ polled'[r] = polled[r])
             => /\ outcome'[r] = "running"
                /\ pc'[r] = "meta"
                /\ metadata'[r] = "unset"
                /\ img_buffer'[r] = "unset"
                /\ embed'[r] = None
                /\ full_url'[r] = fix_utm_source(Tweet(polled[r].id).urls)
                /\ latest_tweet'[r] = Some(Tweet(polled[r].id))]_vars

\* Both fetches succeeded, upload_blob raised, nothing was posted and the
\* task has slept and is about to poll again.
C19_Witness ==
    \E r \in ACCOUNTS :
        /\ UploadFailed(r)
        /\ metadata[r] = "thumbnail"
        /\ img_buffer[r] = "bytes"
        /\ pc[r] = "poll"
        /\ slept[r] = 1
        /\ last_post[r] = None
        /\ previous_tweet_id[r] = None

\* Task a logged in and then ended at lines 90-94: the account was not
\* found, or get_user_by_screen_name raised.
ResolveFailed(a) == auth[a] = "ok" /\ pc[a] \in {"returned", "raised"}

\* C16: when resolving the account fails for one task after its login, only
\* that task stops: no other task is stopped (cancelled) unless the operator
\* interrupted the process.
C16_ResolveFailureIsolated ==
    \A a \in ACCOUNTS : \A b \in ACCOUNTS \ {a} :
        ResolveFailed(a) /\ pc[b] = "cancelled" => main = "interrupted"

(***************************************************************************)
(* The tasks running without an end.  The polls are not counted.  The      *)
(* first tweet a task's poll returns stays the account's latest: its later *)
(* polls return it or raise.  The event loop runs every task that can go   *)
(* on (an await returns or times out, a sleep ends), and main() once       *)
(* gather has an exception or every result.  Nothing makes the operator    *)
(* interrupt.                                                              *)
(***************************************************************************)

\* Line 99
PollOn(r) ==
    /\ PollAnswer(r)
    /\ UNCHANGED cycles
    /\ polled'[r].kind = "empty" => seen[r] = {}
    /\ polled'[r].kind = "tweet" => seen[r] \subseteq {polled'[r].id}

TaskStep(r) ==
    \/ Login(r)
    \/ Resolve(r)
    \/ PollOn(r)
    \/ Meta(r)
    \/ Image(r)
    \/ Upload(r)
    \/ Publish(r)
    \/ Sleep(r)

NextLive ==
    \/ \E r \in ACCOUNTS : TaskStep(r)
    \/ MainReturn
    \/ MainRaise
    \/ CancelTasks
    \/ Interrupt

\* A step of task r, told by what it does to pc: every step of a task moves
\* it to another place and leaves main() and the other tasks where they are,
\* and a task that has not ended always has a step.
TaskMoves(r) ==
    /\ LoopRuns
    /\ pc[r] \notin EndPcs
    /\ main' = main
    /\ \E p \in ({"start"} \cup AwaitPcs \cup LoopPcs \cup EndPcs) \ {pc[r], "cancelled"} :
          pc' = [pc EXCEPT ![r] = p]

SpecLive ==
    /\ Init
    /\ [][NextLive]_vars
    /\ \A r \in ACCOUNTS : WF_pc(TaskMoves(r))
    /\ WF_vars(MainReturn)
    /\ WF_vars(MainRaise)
    /\ WF_vars(CancelTasks)

(***************************************************************************)
(* Properties of the tasks running without an end, checked under SpecLive. *)
(***************************************************************************)

\* The process keeps running, polls of task r keep returning tweet P except
\* when they raise, they do not raise for ever, and send_post, called again
\* and again, does not raise for ever.
StaysLatest(r, P) ==
    /\ <>[](main = "gather")
    /\ <>[](polled[r] \in {Answer("tweet", P), Answer("raise", 0)})
    /\ []<>(polled[r].kind = "tweet")
    /\ <>[](pc[r] # "publish") \/ []<>(outcome[r] = "posted")

\* upload_blob, called again and again, does not raise for ever.
UploadsGetThrough(r) ==
    <>[](pc[r] # "upload") \/ []<>(pc[r] = "publish" /\ embed[r] # None)

Relayed(r, P) == P \in relayed[r] /\ previous_tweet_id[r] = Some(P)

\* C18 as stated: a tweet that stays the latest is posted in the end and
\* previous_tweet_id stays at its id, when polls and send_post succeed
\* again and again.
C18_LatestEventuallyRelayed ==
    \A r \in ACCOUNTS : \A P \in TweetIds :
        StaysLatest(r, P) => <>[]Relayed(r, P)

\* C18 amended: the same, when also upload_blob succeeds again and again.
C18_LatestRelayedIfUploadsGetThrough ==
    \A r \in ACCOUNTS : \A P \in TweetIds :
        StaysLatest(r, P) /\ UploadsGetThrough(r) => <>[]Relayed(r, P)

\* A tweet was posted at the second send_post, after a cycle that
\* upload_blob or send_post had ended, and the next poll skipped it.
C18_Witness ==
    \E r \in ACCOUNTS : \E P \in TweetIds :
        /\ main = "gather"
        /\ Relayed(r, P)
        /\ seen[r] = {P}
        /\ streak[r].sends = 2
        /\ streak[r].after_ok = 0
        /\ outcome[r] = "dup"
        /\ pc[r] = "poll"

(***************************************************************************)
(* The process is started again after a run that posted something has     *)
(* ended: every local starts from line 77 again, and what earlier runs     *)
(* posted stays posted.                                                    *)
(***************************************************************************)

MaxRestarts == 1

Restart ==
    /\ main \in {"exited", "crashed", "interrupted"}
    /\ \A r \in ACCOUNTS : pc[r] \in EndPcs
    /\ restarts < MaxRestarts
    /\ \E r \in ACCOUNTS : relayed[r] # {}
    /\ restarts' = restarts + 1
    /\ relayed_before' = [r \in ACCOUNTS |-> relayed_before[r] \cup relayed[r]]
    /\ main' = "gather"
    /\ pc' = [r \in ACCOUNTS |-> "start"]
    /\ previous_tweet_id' = [r \in ACCOUNTS |-> None]
    /\ latest_tweet' = [r \in ACCOUNTS |-> None]
    /\ full_url' = [r \in ACCOUNTS |-> None]
    /\ metadata' = [r \in ACCOUNTS |-> "unset"]
    /\ img_buffer' = [r \in ACCOUNTS |-> "unset"]
    /\ embed' = [r \in ACCOUNTS |-> None]
    /\ auth' = [r \in ACCOUNTS |-> "pending"]
    /\ polled' = [r \in ACCOUNTS |-> NotPolled]
    /\ outcome' = [r \in ACCOUNTS |-> "none"]
    /\ slept' = [r \in ACCOUNTS |-> 0]
    /\ last_post' = [r \in ACCOUNTS |-> None]
    /\ last_ok' = [r \in ACCOUNTS |-> None]
    /\ relayed' = [r \in ACCOUNTS |-> {}]
    /\ twice' = [r \in ACCOUNTS |-> {}]
    /\ streak' = [r \in ACCOUNTS |-> NoStreak]
    /\ cycle_sends' = [r \in ACCOUNTS |-> 0]
    /\ seen' = [r \in ACCOUNTS |-> {}]
    /\ UNCHANGED <<cycles, textVars, urlVars>>

SpecRestart == Init /\ [][Next \/ Restart]_vars

(***************************************************************************)
(* Properties of a restarted process, checked under SpecRestart.           *)
(***************************************************************************)

\* The polls of task r since the restart keep returning a tweet that an
\* earlier run posted.
StillLatest(r) ==
    /\ restarts > 0
    /\ streak[r].id # None
    /\ streak[r].id[1] \in relayed_before[r]

\* C15: while the tweet an earlier run posted stays the latest, the restarted
\* task posts it successfully at most once, sets its marker to it, and from
\* then on every poll returning it is skipped as a duplicate.
C15_RestartRelaysOnceMore ==
    /\ [](\A r \in ACCOUNTS : StillLatest(r) =>
             /\ streak[r].after_ok = 0
             /\ streak[r].ok => previous_tweet_id[r] = streak[r].id)
    /\ [][\A r \in ACCOUNTS :
             (/\ StillLatest(r)
              /\ streak[r].ok
              /\ pc[r] = "poll"
              /\ main' = main
              /\ pc'[r] \notin {"poll", "cancelled"}
              /\ polled'[r] = Answer("tweet", streak[r].id[1]))
             => /\ outcome'[r] = "dup"
                /\ pc'[r] = "sleep107"
                /\ last_post'[r] = last_post[r]
                /\ streak'[r] = streak[r]]_vars

\* A tweet posted before the restart was posted once more after it, and the
\* next poll returning it was skipped.
C15_Witness ==
    \E r \in ACCOUNTS :
        /\ StillLatest(r)
        /\ streak[r].ok
        /\ streak[r].sends = 1
        /\ polled[r] = Answer("tweet", streak[r].id[1])
        /\ outcome[r] = "dup"
        /\ pc[r] = "sleep107"

(***************************************************************************)
(* Lines 136-142 on their own, over texts built around the limit:          *)
(* lead, n times "a", mid, m times "b", tail.                              *)
(***************************************************************************)

PadSlack == 6
MaxTail == 4

ShortUrl == ShortUrlHead \o <<".">> \o ShortUrlTail \o <<"Z", "9">>

TextLeads == {<<>>, <<" ">>, <<"\r">>}
TextPads  == {0, 1} \cup ((BLUESKY_LIMIT - PadSlack)..BLUESKY_LIMIT)
TextMids  == {<<>>, <<" ">>, <<"\r">>, <<" ", "\n">>, ShortUrl, <<" ">> \o ShortUrl \o <<" ">>,
              ShortUrlHead \o <<"\n">> \o ShortUrlTail \o <<"a">>}
TextTails == {<<>>, <<" ">>, <<"\f", "\t">>, ShortUrl, ShortUrlHead \o <<"x">> \o ShortUrlTail}

TextInputs ==
    {lead \o Rep("a", n) \o mid \o Rep("b", m) \o tail :
        lead \in TextLeads, n \in TextPads, mid \in TextMids,
        m \in 0..MaxTail, tail \in TextTails}

\* A tweet text arrives (latest_tweet.text of line 136).
TextArrives ==
    /\ t_pc = "idle"
    /\ \E text \in TextInputs : t_text' = text
    /\ t_clean' = <<>>
    /\ t_pc' = "raw"
    /\ UNCHANGED <<taskVars, urlVars, runVars>>

\* Line 136
TextStrip ==
    /\ t_pc = "raw"
    /\ t_clean' = stripped_text(t_text)
    /\ t_pc' = "stripped"
    /\ UNCHANGED <<t_text, taskVars, urlVars, runVars>>

\* Lines 139-142
TextTrim ==
    /\ t_pc = "stripped"
    /\ t_clean' = trim_to_limit(t_clean)
    /\ t_pc' = "clean"
    /\ UNCHANGED <<t_text, taskVars, urlVars, runVars>>

NextText == TextArrives \/ TextStrip \/ TextTrim

SpecText == Init /\ [][NextText]_vars

(***************************************************************************)
(* Properties of lines 136-142, checked under SpecText.                    *)
(***************************************************************************)

EndsWith(s, suffix) ==
    /\ Len(s) >= Len(suffix)
    /\ SubSeq(s, Len(s) - Len(suffix) + 1, Len(s)) = suffix

\* The text after line 136, computed from the raw text.
Stripped == strip(SHORT_URL_PATTERN_sub(t_text))

\* C9 as stated: a text longer than 300 after stripping and trimming is
\* cleaned to a text of exactly 300 characters that ends in "...".
C9_LongTextExactly300 ==
    (t_pc = "clean" /\ Len(Stripped) > BLUESKY_LIMIT)
    => EndsWith(t_clean, Ellipsis) /\ Len(t_clean) = BLUESKY_LIMIT

\* C9 amended: such a text is cleaned to its first 297 characters without
\* their trailing whitespace, followed by "...": at most 300 characters,
\* and exactly 300 when the 297th character is not whitespace.
C9_LongTextAtMost300 ==
    LET before == Stripped
        cut    == BLUESKY_LIMIT - Len(Ellipsis)
        kept   == SubSeq(t_clean, 1, Len(t_clean) - Len(Ellipsis))
    IN  (t_pc = "clean" /\ Len(before) > BLUESKY_LIMIT)
        => /\ EndsWith(t_clean, Ellipsis)
           /\ Len(t_clean) <= BLUESKY_LIMIT
           /\ kept = SubSeq(before, 1, Len(kept))
           /\ kept = <<>> \/ ~IsSpace(kept[Len(kept)])
           /\ \A i \in (Len(kept) + 1)..cut : IsSpace(before[i])
           /\ ~IsSpace(before[cut]) <=> Len(t_clean) = BLUESKY_LIMIT

\* A long text whose 297th character is whitespace was cleaned to fewer than
\* 300 characters.
C9_Witness ==
    /\ t_pc = "clean"
    /\ Len(Stripped) > BLUESKY_LIMIT
    /\ Len(t_clean) < BLUESKY_LIMIT
    /\ EndsWith(t_clean, Ellipsis)

\* C10 as stated: the cleaned text has at most 300 characters, and when the
\* text without its short links has at most 300 it is that text, unchanged.
C10_ShortTextUnchanged ==
    t_pc = "clean"
    => /\ Len(t_clean) <= BLUESKY_LIMIT
       /\ Len(SHORT_URL_PATTERN_sub(t_text)) <= BLUESKY_LIMIT
          => t_clean = SHORT_URL_PATTERN_sub(t_text)

\* C10 amended: the cleaned text has at most 300 characters, and when the
\* text without its short links has at most 300 it is that text without its
\* leading and trailing whitespace.
C10_ShortTextTrimmed ==
    t_pc = "clean"
    => /\ Len(t_clean) <= BLUESKY_LIMIT
       /\ Len(SHORT_URL_PATTERN_sub(t_text)) <= BLUESKY_LIMIT
          => t_clean = strip(SHORT_URL_PATTERN_sub(t_text))

\* A text with a short link at its end, within the limit: what is posted is
\* shorter than the text without the link.
C10_Witness ==
    /\ t_pc = "clean"
    /\ Len(t_text) > Len(SHORT_URL_PATTERN_sub(t_text))
    /\ Len(SHORT_URL_PATTERN_sub(t_text)) <= BLUESKY_LIMIT
    /\ Len(t_clean) < Len(SHORT_URL_PATTERN_sub(t_text))
    /\ Len(t_clean) > 0

(***************************************************************************)
(* fix_utm_source on its own, over URLs put together from a few pieces,    *)
(* and None and ''.                                                        *)
(***************************************************************************)

MaxParts == 2

UrlParts ==
    {UtmTwitter, UtmBluesky, Twitter, <<"x", "?">>, <<"&">>, <<"r">>,
     SubSeq(UtmTwitter, 1, 11),                  \* "utm_source="
     SubSeq(UtmTwitter, 1, 17),                  \* "utm_source=twitte"
     SubSeq(UtmTwitter, 1, 11) \o <<"T">> \o SubSeq(Twitter, 2, 7)}

RECURSIVE UrlsOf(_)
UrlsOf(n) ==
    IF n = 0 THEN {<<>>}
    ELSE UrlsOf(n - 1) \cup {p \o u : p \in UrlParts, u \in UrlsOf(n - 1)}

UrlInputs == {None} \cup {Some(u) : u \in UrlsOf(MaxParts)}

\* A URL arrives (full_url of line 113).
UrlArrives ==
    /\ u_pc = "idle"
    /\ \E url \in UrlInputs : u_url' = url
    /\ u_pc' = "raw"
    /\ UNCHANGED <<u_once, u_twice, taskVars, textVars, runVars>>

\* Line 114
UrlRewrite ==
    /\ u_pc = "raw"
    /\ u_once' = fix_utm_source(u_url)
    /\ u_pc' = "once"
    /\ UNCHANGED <<u_url, u_twice, taskVars, textVars, runVars>>

\* fix_utm_source applied to its own result.
UrlRewriteAgain ==
    /\ u_pc = "once"
    /\ u_twice' = fix_utm_source(u_once)
    /\ u_pc' = "twice"
    /\ UNCHANGED <<u_url, u_once, taskVars, textVars, runVars>>

NextUrl == UrlArrives \/ UrlRewrite \/ UrlRewriteAgain

SpecUrl == Init /\ [][NextUrl]_vars

(***************************************************************************)
(* Properties of fix_utm_source, checked under SpecUrl.                    *)
(***************************************************************************)

HasUtmTwitter(url) ==
    /\ Truthy(url)
    /\ \E i \in 1..Len(url[1]) : StartsAt(url[1], i, UtmTwitter)

\* C13: rewriting a rewritten URL changes nothing, and a URL without
\* utm_source=twitter (None and '' among them) is returned as it is.
C13_RewriteIdempotent ==
    /\ u_pc \in {"once", "twice"} /\ ~HasUtmTwitter(u_url) => u_once = u_url
    /\ u_pc = "twice" => u_twice = u_once

\* A URL with utm_source=twitter was rewritten to another URL, which the
\* second rewrite left alone.
C13_Witness ==
    /\ u_pc = "twice"
    /\ HasUtmTwitter(u_url)
    /\ u_once # u_url
    /\ ~HasUtmTwitter(u_once)
    /\ u_twice = u_once

====
